---- MODULE Spec2Model ----
(***************************************************************************)
(* The airport booking models of airport/models.py as a state machine over *)
(* the database tables.  A table is the set of its rows; a row is a record *)
(* of the columns that decide behaviour (display-only columns such as      *)
(* Airport.name, Route.distance or Order.created_at are left out).         *)
(* Model.save(), Model.delete() and the on_delete rules of the foreign     *)
(* keys are the actions.                                                   *)
(***************************************************************************)
EXTENDS Integers, FiniteSets, Sequences, TLC

VARIABLES
    airports,        \* rows of Airport
    routes,          \* rows of Route
    airplane_types,  \* rows of AirplaneType
    airplanes,       \* rows of Airplane
    crews,           \* rows of Crew
    flights,         \* rows of Flight
    flight_crew,     \* rows of the Flight.crew many-to-many table
    orders,          \* rows of Order
    tickets,         \* rows of Ticket
    seq,             \* next primary key of each table (auto-increment)
    outcome,         \* what the last call did: the instance and what it raised
    callers          \* concurrent callers, each inside one save()

vars == <<airports, routes, airplane_types, airplanes, crews, flights,
          flight_crew, orders, tickets, seq, outcome, callers>>

store == <<airports, routes, airplane_types, airplanes, crews, flights,
           flight_crew, orders, tickets>>

----------------------------------------------------------------------------
\* Bounds of the model.

\* Flights, tickets, routes, airports ever created by the calls of one run
\* (a call that is refused creates nothing and is not counted).
MaxFlights == 1
MaxTickets == 1
MaxRoutes == 2
MaxAirports == 2
\* Airplane types, airplanes, crew members, orders ever created in one run.
MaxOther == 2
\* Airplane.rows and Airplane.seats_in_row range over 1..MaxRows.
MaxRows == 2
\* Timestamps are 0, 15, .., 15 * MaxTime minutes after 2024-06-01 10:00.
MaxTime == 3

----------------------------------------------------------------------------
\* Values.

\* null=True: the value of a cleared foreign key, and pk of an unsaved instance.
NULL == 0

\* timedelta(minutes=30)
MinGap == 30

Times == {15 * k : k \in 0..MaxTime}
Dims == 1..MaxRows
\* Ticket.row / Ticket.seat_in_row as a caller may give them.
SeatNumbers == 0..(MaxRows + 1)

InvalidTimeRange == "Arrival time must be at least 30 minutes from departure time."
InvalidRow == "Invalid row number for this airplane"
InvalidSeat == "Invalid seat number for this airplane"
MinValue == "min_value"
UniqueTogether == "unique_together"
NON_FIELD_ERRORS == "__all__"

Ids(table) == {x.id : x \in table}
Row(table, id) == CHOOSE x \in table : x.id = id
Fields(errors) == {e[1] : e \in errors}

NoOutcome == [op |-> "none", pk |-> NULL, instance |-> NULL, errors |-> {}, raised |-> "none"]

----------------------------------------------------------------------------
\* Flight

\* Flight.clean: the error dict as a set of <<field, message>>.
FlightCleanStrict(departure_time, arrival_time) ==
    IF arrival_time + MinGap < departure_time
    THEN {<<"arrival_time", InvalidTimeRange>>}
    ELSE {}

FlightClean(departure_time, arrival_time) ==
    IF arrival_time + MinGap <= departure_time
    THEN {<<"arrival_time", InvalidTimeRange>>}
    ELSE {}

\* Flight.duration
duration(f) == f.arrival_time - f.departure_time

\* save(): full_clean() raises before super().save() is reached.
SaveProceedsAlways(errors) == TRUE

SaveProceeds(errors) == errors = {}

\* Flight.save of an instance with primary key pk (NULL: not saved yet):
\* full_clean(), then INSERT or UPDATE.  The foreign keys name existing rows.
FlightSave(pk, departure_time, arrival_time, route, airplane) ==
    LET errors == FlightClean(departure_time, arrival_time)
        id == IF pk = NULL THEN seq.flight ELSE pk
        instance == [id |-> id, departure_time |-> departure_time,
                     arrival_time |-> arrival_time, route |-> route,
                     airplane |-> airplane]
    IN  /\ route \in Ids(routes)
        /\ airplane \in Ids(airplanes)
        /\ pk # NULL => pk \in Ids(flights)
        /\ (pk = NULL /\ SaveProceeds(errors)) => seq.flight <= MaxFlights
        /\ IF SaveProceeds(errors)
           THEN /\ flights' = {f \in flights : f.id # id} \cup {instance}
                /\ seq' = IF pk = NULL THEN [seq EXCEPT !.flight = @ + 1] ELSE seq
           ELSE UNCHANGED <<flights, seq>>
        /\ outcome' = [op |-> "Flight.save", pk |-> pk,
                       instance |-> IF errors = {} THEN instance
                                    ELSE [instance EXCEPT !.id = pk],
                       errors |-> errors,
                       raised |-> IF errors = {} THEN "none" ELSE "ValidationError"]
        /\ UNCHANGED <<airports, routes, airplane_types, airplanes, crews,
                       flight_crew, orders, tickets, callers>>

----------------------------------------------------------------------------
\* Airplane

\* Airplane.capacity
capacity(a) == a.rows * a.seats_in_row

\* Airplane.save of an existing row with new dimensions: Airplane does not
\* override save(), so nothing is validated against the tickets sold.
AirplaneSave(pk, rows, seats_in_row) ==
    /\ pk \in Ids(airplanes)
    /\ airplanes' = {IF a.id = pk
                     THEN [a EXCEPT !.rows = rows, !.seats_in_row = seats_in_row]
                     ELSE a : a \in airplanes}
    /\ outcome' = [op |-> "Airplane.save", pk |-> pk,
                   instance |-> [Row(airplanes, pk) EXCEPT !.rows = rows,
                                                           !.seats_in_row = seats_in_row],
                   errors |-> {}, raised |-> "none"]
    /\ UNCHANGED <<airports, routes, airplane_types, crews, flights,
                   flight_crew, orders, tickets, seq, callers>>

----------------------------------------------------------------------------
\* Ticket

\* validators=[MinValueValidator(1)] of row and seat_in_row (clean_fields).
TicketCleanFields(row, seat_in_row) ==
    (IF row < 1 THEN {<<"row", MinValue>>} ELSE {})
    \cup (IF seat_in_row < 1 THEN {<<"seat_in_row", MinValue>>} ELSE {})

\* Ticket.clean against the airplane of the ticket's flight.
TicketCleanShortCircuit(row, seat_in_row, airplane) ==
    IF row > airplane.rows THEN {<<"row", InvalidRow>>}
    ELSE IF seat_in_row > airplane.seats_in_row
         THEN {<<"seat_in_row", InvalidSeat>>}
         ELSE {}

TicketClean(row, seat_in_row, airplane) ==
    (IF row > airplane.rows THEN {<<"row", InvalidRow>>} ELSE {})
    \cup (IF seat_in_row > airplane.seats_in_row
          THEN {<<"seat_in_row", InvalidSeat>>}
          ELSE {})

\* unique_together = ("flight", "row", "seat_in_row")
TicketUniqueFields == {"flight", "row", "seat_in_row"}

TicketUniqueKey(t) == <<t.flight, t.row, t.seat_in_row>>

\* The other rows of Ticket that hold the instance's unique key.
TicketConflicts(instance) ==
    {t \in tickets : t.id # instance.id
                     /\ TicketUniqueKey(t) = TicketUniqueKey(instance)}

\* The unique index that unique_together puts on the table: an INSERT or
\* UPDATE goes through when no other row holds the key.
TicketIndexAbsent(instance) == TRUE

TicketIndexAdmits(instance) == TicketConflicts(instance) = {}

\* full_clean(): clean_fields(), clean(), then validate_unique() for the
\* unique checks none of whose fields has failed so far.
TicketFullClean(instance) ==
    LET airplane == Row(airplanes, Row(flights, instance.flight).airplane)
        failed == TicketCleanFields(instance.row, instance.seat_in_row)
                  \cup TicketClean(instance.row, instance.seat_in_row, airplane)
    IN  failed \cup
        (IF Fields(failed) \cap TicketUniqueFields = {}
            /\ TicketConflicts(instance) # {}
         THEN {<<NON_FIELD_ERRORS, UniqueTogether>>}
         ELSE {})

\* Ticket.save of an instance with primary key pk (NULL: not saved yet):
\* full_clean(), then INSERT or UPDATE under the table's unique index.
TicketSave(pk, row, seat_in_row, order, flight) ==
    LET candidate == [id |-> pk, row |-> row, seat_in_row |-> seat_in_row,
                      order |-> order, flight |-> flight]
        errors == TicketFullClean(candidate)
        id == IF pk = NULL THEN seq.ticket ELSE pk
        instance == [candidate EXCEPT !.id = id]
        integrity == SaveProceeds(errors) /\ ~TicketIndexAdmits(candidate)
        written == SaveProceeds(errors) /\ ~integrity
    IN  /\ order \in Ids(orders)
        /\ flight \in Ids(flights)
        /\ pk # NULL => pk \in Ids(tickets)
        /\ (pk = NULL /\ written) => seq.ticket <= MaxTickets
        /\ IF written
           THEN /\ tickets' = {t \in tickets : t.id # id} \cup {instance}
                /\ seq' = IF pk = NULL THEN [seq EXCEPT !.ticket = @ + 1] ELSE seq
           ELSE UNCHANGED <<tickets, seq>>
        /\ outcome' = [op |-> "Ticket.save", pk |-> pk,
                       instance |-> IF written THEN instance ELSE candidate,
                       errors |-> errors,
                       raised |-> IF errors # {} THEN "ValidationError"
                                  ELSE IF integrity THEN "IntegrityError"
                                  ELSE "none"]
        /\ UNCHANGED <<airports, routes, airplane_types, airplanes, crews,
                       flights, flight_crew, orders, callers>>

----------------------------------------------------------------------------
\* Route

\* unique_together = ("source", "destination")
RouteUniqueKeyUnordered(r) == {r.source, r.destination}

RouteUniqueKey(r) == <<r.source, r.destination>>

RouteConflicts(instance) ==
    {r \in routes : r.id # instance.id
                    /\ RouteUniqueKey(r) = RouteUniqueKey(instance)}

\* Route.save (Route does not override save(): no full_clean): INSERT or
\* UPDATE under the table's unique index.  (callers is left to the step
\* that makes the call.)
RouteSave(pk, source, destination) ==
    LET candidate == [id |-> pk, source |-> source, destination |-> destination]
        id == IF pk = NULL THEN seq.route ELSE pk
        instance == [candidate EXCEPT !.id = id]
        written == RouteConflicts(candidate) = {}
    IN  /\ source \in Ids(airports)
        /\ destination \in Ids(airports)
        /\ pk # NULL => pk \in Ids(routes)
        /\ (pk = NULL /\ written) => seq.route <= MaxRoutes
        /\ IF written
           THEN /\ routes' = {r \in routes : r.id # id} \cup {instance}
                /\ seq' = IF pk = NULL THEN [seq EXCEPT !.route = @ + 1] ELSE seq
           ELSE UNCHANGED <<routes, seq>>
        /\ outcome' = [op |-> "Route.save", pk |-> pk,
                       instance |-> IF written THEN instance ELSE candidate,
                       errors |-> {},
                       raised |-> IF written THEN "none" ELSE "IntegrityError"]
        /\ UNCHANGED <<airports, airplane_types, airplanes, crews, flights,
                       flight_crew, orders, tickets>>

----------------------------------------------------------------------------
\* Crew

Names == {"A", "B"}

\* unique_together = ("first_name", "last_name")
CrewUniqueKey(c) == <<c.first_name, c.last_name>>

CrewConflicts(instance) ==
    {c \in crews : c.id # instance.id
                   /\ CrewUniqueKey(c) = CrewUniqueKey(instance)}

\* Crew.save of a new instance: INSERT under the table's unique index.
CrewSave(first_name, last_name) ==
    LET candidate == [id |-> NULL, first_name |-> first_name,
                      last_name |-> last_name]
        instance == [candidate EXCEPT !.id = seq.crew]
        written == CrewConflicts(candidate) = {}
    IN  /\ written => seq.crew <= MaxOther
        /\ IF written
           THEN /\ crews' = crews \cup {instance}
                /\ seq' = [seq EXCEPT !.crew = @ + 1]
           ELSE UNCHANGED <<crews, seq>>
        /\ outcome' = [op |-> "Crew.save", pk |-> NULL,
                       instance |-> IF written THEN instance ELSE candidate,
                       errors |-> {},
                       raised |-> IF written THEN "none" ELSE "IntegrityError"]
        /\ UNCHANGED <<airports, routes, airplane_types, airplanes, flights,
                       flight_crew, orders, tickets>>

\* flight.crew.add(crew): a row of the many-to-many table.
FlightCrewAdd(flight, crew) ==
    /\ flight \in Ids(flights)
    /\ crew \in Ids(crews)
    /\ <<flight, crew>> \notin flight_crew
    /\ flight_crew' = flight_crew \cup {<<flight, crew>>}
    /\ outcome' = [op |-> "Flight.crew.add", pk |-> NULL, instance |-> <<flight, crew>>,
                   errors |-> {}, raised |-> "none"]
    /\ UNCHANGED <<airports, routes, airplane_types, airplanes, crews, flights,
                   orders, tickets, seq, callers>>

----------------------------------------------------------------------------
\* Rows without rules of their own: Airport, AirplaneType, Order, and new
\* Airplanes.

AirportCreate ==
    /\ seq.airport <= MaxAirports
    /\ airports' = airports \cup {[id |-> seq.airport]}
    /\ seq' = [seq EXCEPT !.airport = @ + 1]
    /\ outcome' = [op |-> "Airport.save", pk |-> NULL, instance |-> [id |-> seq.airport],
                   errors |-> {}, raised |-> "none"]
    /\ UNCHANGED <<routes, airplane_types, airplanes, crews, flights,
                   flight_crew, orders, tickets, callers>>

AirplaneTypeCreate ==
    /\ seq.airplane_type <= MaxOther
    /\ airplane_types' = airplane_types \cup {[id |-> seq.airplane_type]}
    /\ seq' = [seq EXCEPT !.airplane_type = @ + 1]
    /\ outcome' = [op |-> "AirplaneType.save", pk |-> NULL,
                   instance |-> [id |-> seq.airplane_type],
                   errors |-> {}, raised |-> "none"]
    /\ UNCHANGED <<airports, routes, airplanes, crews, flights, flight_crew,
                   orders, tickets, callers>>

AirplaneCreate(rows, seats_in_row, airplane_type) ==
    LET instance == [id |-> seq.airplane, rows |-> rows,
                     seats_in_row |-> seats_in_row,
                     airplane_type |-> airplane_type]
    IN  /\ seq.airplane <= MaxOther
        /\ airplane_type \in Ids(airplane_types) \cup {NULL}
        /\ airplanes' = airplanes \cup {instance}
        /\ seq' = [seq EXCEPT !.airplane = @ + 1]
        /\ outcome' = [op |-> "Airplane.save", pk |-> NULL, instance |-> instance,
                       errors |-> {}, raised |-> "none"]
        /\ UNCHANGED <<airports, routes, airplane_types, crews, flights,
                       flight_crew, orders, tickets, callers>>

OrderCreate ==
    /\ seq.order <= MaxOther
    /\ orders' = orders \cup {[id |-> seq.order]}
    /\ seq' = [seq EXCEPT !.order = @ + 1]
    /\ outcome' = [op |-> "Order.save", pk |-> NULL, instance |-> [id |-> seq.order],
                   errors |-> {}, raised |-> "none"]
    /\ UNCHANGED <<airports, routes, airplane_types, airplanes, crews, flights,
                   flight_crew, tickets, callers>>

----------------------------------------------------------------------------
\* delete() and the on_delete rules.

\* Route.source, Route.destination: on_delete=CASCADE
RoutesOnAirportsSourceOnly(gone) == {r \in routes : r.source \in gone}

RoutesOnAirports(gone) ==
    {r \in routes : r.source \in gone \/ r.destination \in gone}

\* Flight.route: on_delete=CASCADE
FlightsOnRoutes(gone) == {f \in flights : f.route \in gone}

\* Flight.airplane: on_delete=CASCADE
FlightsOnAirplanes(gone) == {f \in flights : f.airplane \in gone}

\* Ticket.flight: on_delete=CASCADE
TicketsOnFlights(gone) == {t \in tickets : t.flight \in gone}

\* Ticket.order: on_delete=CASCADE
TicketsOfOrders(gone) == {t \in tickets : t.order \in gone}

\* Airplane.airplane_type: on_delete=SET_NULL
AirplanesAfterTypesCascade(gone) ==
    {a \in airplanes : a.airplane_type \notin gone}

AirplanesAfterTypes(gone) ==
    {IF a.airplane_type \in gone THEN [a EXCEPT !.airplane_type = NULL] ELSE a :
        a \in airplanes}

\* delete() of the rows named in d (a record of sets of primary keys, one per
\* table): the rows are collected along the CASCADE keys and deleted together.
Delete(op, d) ==
    LET goneRoutes == d.routes \cup Ids(RoutesOnAirports(d.airports))
        goneFlights == d.flights \cup Ids(FlightsOnRoutes(goneRoutes))
                       \cup Ids(FlightsOnAirplanes(d.airplanes))
        goneTickets == d.tickets \cup Ids(TicketsOnFlights(goneFlights))
                       \cup Ids(TicketsOfOrders(d.orders))
    IN  /\ airports' = {x \in airports : x.id \notin d.airports}
        /\ routes' = {x \in routes : x.id \notin goneRoutes}
        /\ airplane_types' = {x \in airplane_types : x.id \notin d.airplane_types}
        /\ airplanes' = {x \in AirplanesAfterTypes(d.airplane_types) :
                            x.id \notin d.airplanes}
        /\ crews' = {x \in crews : x.id \notin d.crews}
        /\ flights' = {x \in flights : x.id \notin goneFlights}
        /\ flight_crew' = {x \in flight_crew : x[1] \notin goneFlights
                                               /\ x[2] \notin d.crews}
        /\ orders' = {x \in orders : x.id \notin d.orders}
        /\ tickets' = {x \in tickets : x.id \notin goneTickets}
        /\ outcome' = [op |-> op, pk |-> NULL, instance |-> d, errors |-> {}, raised |-> "none"]
        /\ UNCHANGED <<seq, callers>>

Nothing ==
    [airports |-> {}, routes |-> {}, airplane_types |-> {}, airplanes |-> {},
     crews |-> {}, flights |-> {}, orders |-> {}, tickets |-> {}]

AirportDelete(pk) ==
    /\ pk \in Ids(airports)
    /\ Delete("Airport.delete", [Nothing EXCEPT !.airports = {pk}])

RouteDelete(pk) ==
    /\ pk \in Ids(routes)
    /\ Delete("Route.delete", [Nothing EXCEPT !.routes = {pk}])

AirplaneTypeDelete(pk) ==
    /\ pk \in Ids(airplane_types)
    /\ Delete("AirplaneType.delete", [Nothing EXCEPT !.airplane_types = {pk}])

AirplaneDelete(pk) ==
    /\ pk \in Ids(airplanes)
    /\ Delete("Airplane.delete", [Nothing EXCEPT !.airplanes = {pk}])

CrewDelete(pk) ==
    /\ pk \in Ids(crews)
    /\ Delete("Crew.delete", [Nothing EXCEPT !.crews = {pk}])

FlightDelete(pk) ==
    /\ pk \in Ids(flights)
    /\ Delete("Flight.delete", [Nothing EXCEPT !.flights = {pk}])

OrderDelete(pk) ==
    /\ pk \in Ids(orders)
    /\ Delete("Order.delete", [Nothing EXCEPT !.orders = {pk}])

TicketDelete(pk) ==
    /\ pk \in Ids(tickets)
    /\ Delete("Ticket.delete", [Nothing EXCEPT !.tickets = {pk}])

----------------------------------------------------------------------------
\* The program: calls made one after another on a database that starts
\* empty.

NoCallers == [c \in {} |-> NULL]

Init ==
    /\ airports = {}
    /\ routes = {}
    /\ airplane_types = {}
    /\ airplanes = {}
    /\ crews = {}
    /\ flights = {}
    /\ flight_crew = {}
    /\ orders = {}
    /\ tickets = {}
    /\ seq = [airport |-> 1, route |-> 1, airplane_type |-> 1, airplane |-> 1,
              crew |-> 1, flight |-> 1, order |-> 1, ticket |-> 1]
    /\ outcome = NoOutcome
    /\ callers = NoCallers

FlightCreate ==
    \E d \in Times, a \in Times, r \in Ids(routes), p \in Ids(airplanes) :
        FlightSave(NULL, d, a, r, p)

FlightUpdate ==
    \E f \in Ids(flights), d \in Times, a \in Times, r \in Ids(routes),
       p \in Ids(airplanes) :
        FlightSave(f, d, a, r, p)

TicketCreate ==
    \E row \in SeatNumbers, seat \in SeatNumbers, o \in Ids(orders),
       f \in Ids(flights) :
        TicketSave(NULL, row, seat, o, f)

TicketUpdate ==
    \E t \in Ids(tickets), row \in SeatNumbers, seat \in SeatNumbers,
       o \in Ids(orders), f \in Ids(flights) :
        TicketSave(t, row, seat, o, f)

AirplaneUpdate ==
    \E p \in Ids(airplanes), rows \in Dims, seats \in Dims :
        AirplaneSave(p, rows, seats)

RouteCreate ==
    \E s \in Ids(airports), d \in Ids(airports) :
        RouteSave(NULL, s, d) /\ UNCHANGED callers

RouteUpdate ==
    \E r \in Ids(routes), s \in Ids(airports), d \in Ids(airports) :
        RouteSave(r, s, d) /\ UNCHANGED callers

Creates ==
    \/ AirportCreate
    \/ AirplaneTypeCreate
    \/ OrderCreate
    \/ \E rows \in Dims, seats \in Dims, t \in Ids(airplane_types) \cup {NULL} :
        AirplaneCreate(rows, seats, t)
    \/ \E f \in Names, l \in Names : CrewSave(f, l) /\ UNCHANGED callers
    \/ \E f \in Ids(flights), c \in Ids(crews) : FlightCrewAdd(f, c)

Deletes ==
    \/ \E pk \in Ids(airports) : AirportDelete(pk)
    \/ \E pk \in Ids(routes) : RouteDelete(pk)
    \/ \E pk \in Ids(airplane_types) : AirplaneTypeDelete(pk)
    \/ \E pk \in Ids(airplanes) : AirplaneDelete(pk)
    \/ \E pk \in Ids(crews) : CrewDelete(pk)
    \/ \E pk \in Ids(flights) : FlightDelete(pk)
    \/ \E pk \in Ids(orders) : OrderDelete(pk)
    \/ \E pk \in Ids(tickets) : TicketDelete(pk)

Next ==
    \/ Creates
    \/ RouteCreate
    \/ RouteUpdate
    \/ FlightCreate
    \/ FlightUpdate
    \/ AirplaneUpdate
    \/ TicketCreate
    \/ TicketUpdate
    \/ Deletes

Spec == Init /\ [][Next]_vars

----------------------------------------------------------------------------
\* Flights and tickets are saved (new rows and changes of saved rows) on a
\* database that already holds two airports, a route between them, an order
\* and an airplane of some size.

Seeded ==
    /\ airports = {[id |-> 1], [id |-> 2]}
    /\ routes = {[id |-> 1, source |-> 1, destination |-> 2]}
    /\ airplane_types = {}
    /\ crews = {}
    /\ flight_crew = {}
    /\ orders = {[id |-> 1]}
    /\ outcome = NoOutcome
    /\ callers = NoCallers

InitSave ==
    /\ Seeded
    /\ \E rows \in Dims, seats \in Dims :
        airplanes = {[id |-> 1, rows |-> rows, seats_in_row |-> seats,
                      airplane_type |-> NULL]}
    /\ flights = {}
    /\ tickets = {}
    /\ seq = [airport |-> 3, route |-> 2, airplane_type |-> 1, airplane |-> 2,
              crew |-> 1, flight |-> 1, order |-> 2, ticket |-> 1]

NextSave ==
    \/ FlightCreate
    \/ FlightUpdate
    \/ TicketCreate
    \/ TicketUpdate

SpecSave == InitSave /\ [][NextSave]_vars

\* The same database; flights are saved, changed and deleted.
NextFlight ==
    \/ FlightCreate
    \/ FlightUpdate
    \/ \E pk \in Ids(flights) : FlightDelete(pk)

SpecFlight == InitSave /\ [][NextFlight]_vars

\* The same database with one flight on the airplane; tickets for it are
\* saved, changed and deleted.
InitSeat ==
    /\ Seeded
    /\ \E rows \in Dims, seats \in Dims :
        airplanes = {[id |-> 1, rows |-> rows, seats_in_row |-> seats,
                      airplane_type |-> NULL]}
    /\ flights = {[id |-> 1, departure_time |-> 0, arrival_time |-> 15,
                   route |-> 1, airplane |-> 1]}
    /\ tickets = {}
    /\ seq = [airport |-> 3, route |-> 2, airplane_type |-> 1, airplane |-> 2,
              crew |-> 1, flight |-> 2, order |-> 2, ticket |-> 1]

NextSeat ==
    \/ TicketCreate
    \/ TicketUpdate
    \/ \E pk \in Ids(tickets) : TicketDelete(pk)

SpecSeat == InitSeat /\ [][NextSeat]_vars

\* C1: Flight.save raises the arrival_time validation error exactly when
\* arrival_time + 30 minutes <= departure_time; in every other case nothing
\* is raised and the flight is a row of the table.
C1_FlightSaveFailsIffArrivalTooEarly ==
    outcome.op = "Flight.save" =>
        LET f == outcome.instance
            early == f.arrival_time + 30 <= f.departure_time
        IN  /\ early =>
                /\ outcome.raised = "ValidationError"
                /\ outcome.errors = {<<"arrival_time", InvalidTimeRange>>}
                /\ f \notin flights
            /\ ~early =>
                /\ outcome.raised = "none"
                /\ outcome.errors = {}
                /\ f.id # NULL
                /\ f \in flights

\* A save at the boundary (arrival_time + 30 minutes = departure_time) was
\* refused and a save one step above it went through.
C1_Witness ==
    /\ outcome.op = "Flight.save"
    /\ outcome.raised = "ValidationError"
    /\ outcome.instance.arrival_time + 30 = outcome.instance.departure_time
    /\ \E f \in flights : f.arrival_time + 45 = f.departure_time + 30

\* C2: a flight that arrives less than 30 minutes after it departs (10:00 to
\* 10:15) is refused with the arrival_time validation error.
C2_ShortFlightRejected ==
    (/\ outcome.op = "Flight.save"
     /\ outcome.instance.arrival_time - outcome.instance.departure_time \in 1..29)
    => /\ outcome.raised = "ValidationError"
       /\ <<"arrival_time", InvalidTimeRange>> \in outcome.errors

\* The airplane a ticket's seat is on: ticket.flight.airplane.
AirplaneOf(t) == Row(airplanes, Row(flights, t.flight).airplane)

\* The persisted tickets other than t that are for t's flight, row and seat.
SameSeat(t) ==
    {u \in tickets : /\ u.id # t.id
                     /\ u.flight = t.flight
                     /\ u.row = t.row
                     /\ u.seat_in_row = t.seat_in_row}

\* C3: Ticket.save raises the seat validation error exactly when
\* row > airplane.rows or seat_in_row > airplane.seats_in_row; the error dict
\* holds "row" exactly when the row is too high and "seat_in_row" exactly when
\* the seat is too high (both when both are), and a ticket for the last seat
\* of the last row is saved.
C3_SeatChecksAreIndependent ==
    outcome.op = "Ticket.save" =>
        LET t == outcome.instance
            rowBad == t.row > AirplaneOf(t).rows
            seatBad == t.seat_in_row > AirplaneOf(t).seats_in_row
        IN  /\ <<"row", InvalidRow>> \in outcome.errors <=> rowBad
            /\ <<"seat_in_row", InvalidSeat>> \in outcome.errors <=> seatBad
            /\ (t.row >= 1 /\ t.seat_in_row >= 1) =>
                /\ "row" \in Fields(outcome.errors) <=> rowBad
                /\ "seat_in_row" \in Fields(outcome.errors) <=> seatBad
            /\ (rowBad \/ seatBad) =>
                /\ outcome.raised = "ValidationError"
                /\ t.id = outcome.pk
                /\ t \notin tickets
            /\ (/\ t.row = AirplaneOf(t).rows
                /\ t.seat_in_row = AirplaneOf(t).seats_in_row
                /\ SameSeat(t) = {}) =>
                /\ outcome.raised = "none"
                /\ t \in tickets

\* A save with both the row and the seat too high was refused while the
\* ticket for the last seat of the last row is in the table.
C3_Witness ==
    /\ outcome.op = "Ticket.save"
    /\ Fields(outcome.errors) = {"row", "seat_in_row"}
    /\ \E t \in tickets : /\ t.row = AirplaneOf(t).rows
                          /\ t.seat_in_row = AirplaneOf(t).seats_in_row

\* C4: a save that raises leaves every table as it was, and a save that
\* writes a row has raised nothing: the row it wrote passed validation.
C4_SaveFailsClosed ==
    [][outcome'.op \in {"Flight.save", "Ticket.save"} =>
        /\ outcome'.raised # "none" => UNCHANGED store
        /\ ~(UNCHANGED store) =>
            /\ outcome'.raised = "none"
            /\ outcome'.errors = {}
        /\ \A f \in flights' : f.arrival_time + 30 > f.departure_time
        /\ \A t \in tickets' \ tickets :
            /\ t.row \in 1..Row(airplanes', Row(flights', t.flight).airplane).rows
            /\ t.seat_in_row \in
                1..Row(airplanes', Row(flights', t.flight).airplane).seats_in_row
      ]_vars

\* The change of a saved ticket was refused by validation, with the flight
\* and the ticket in the tables.
C4_Witness ==
    /\ outcome.op = "Ticket.save"
    /\ outcome.raised = "ValidationError"
    /\ outcome.pk # NULL
    /\ flights # {}
    /\ tickets # {}

----------------------------------------------------------------------------
\* Tickets are sold, changed and returned for two flights while the
\* airplanes are refitted and the flights move between the airplanes.

InitTicket ==
    /\ Seeded
    /\ airplanes = {[id |-> 1, rows |-> MaxRows, seats_in_row |-> MaxRows,
                     airplane_type |-> NULL],
                    [id |-> 2, rows |-> 1, seats_in_row |-> 1,
                     airplane_type |-> NULL]}
    /\ flights = {[id |-> 1, departure_time |-> 0, arrival_time |-> 15,
                   route |-> 1, airplane |-> 1],
                  [id |-> 2, departure_time |-> 15, arrival_time |-> 15,
                   route |-> 1, airplane |-> 1]}
    /\ tickets = {}
    /\ seq = [airport |-> 3, route |-> 2, airplane_type |-> 1, airplane |-> 3,
              crew |-> 1, flight |-> 3, order |-> 2, ticket |-> 1]

\* flight.airplane = p; flight.save()
FlightChangeAirplane ==
    \E f \in flights, p \in Ids(airplanes) :
        FlightSave(f.id, f.departure_time, f.arrival_time, f.route, p)

NextTicket ==
    \/ TicketCreate
    \/ \E pk \in Ids(tickets) : TicketDelete(pk)
    \/ AirplaneUpdate
    \/ FlightChangeAirplane

SpecTicket == InitTicket /\ [][NextTicket]_vars

\* C5: every persisted ticket's row and seat exist on the airplane of its
\* flight.
C5_TicketsFitTheirAirplane ==
    \A t \in tickets :
        /\ t.row <= AirplaneOf(t).rows
        /\ t.seat_in_row <= AirplaneOf(t).seats_in_row

\* C6: no two tickets are for the same flight, row and seat; a new ticket for
\* a seat that a persisted ticket holds is refused as a duplicate, and a new
\* ticket for a free seat of the airplane is saved.
C6_DuplicateSeatRefused ==
    /\ \A t \in tickets : SameSeat(t) = {}
    /\ (outcome.op = "Ticket.save" /\ outcome.pk = NULL) =>
        LET t == outcome.instance
        IN  /\ SameSeat(t) # {} =>
                \/ <<NON_FIELD_ERRORS, UniqueTogether>> \in outcome.errors
                \/ outcome.raised = "IntegrityError"
            /\ (/\ SameSeat(t) = {}
                /\ t.row \in 1..AirplaneOf(t).rows
                /\ t.seat_in_row \in 1..AirplaneOf(t).seats_in_row) =>
                /\ outcome.raised = "none"
                /\ t \in tickets

----------------------------------------------------------------------------
\* Airports and routes are added, routes are changed, and both are deleted,
\* on a database that starts empty.

NextRoute ==
    \/ AirportCreate
    \/ RouteCreate
    \/ RouteUpdate
    \/ \E pk \in Ids(routes) : RouteDelete(pk)
    \/ \E pk \in Ids(airports) : AirportDelete(pk)

SpecRoute == Init /\ [][NextRoute]_vars

\* The persisted routes other than r from r's source to r's destination.
SameWay(r) ==
    {q \in routes : /\ q.id # r.id
                    /\ q.source = r.source
                    /\ q.destination = r.destination}

\* The persisted routes from r's destination back to r's source.
WayBack(r) ==
    {q \in routes : /\ q.id # r.id
                    /\ q.source = r.destination
                    /\ q.destination = r.source}

\* C7: no two routes have the same source and the same destination; a new
\* route from a source to a destination that a persisted route already
\* connects in that direction is refused as a duplicate, and any other new
\* route is saved, the way back of a persisted route included.
C7_RouteUniqueByDirection ==
    /\ \A r \in routes : SameWay(r) = {}
    /\ (outcome.op = "Route.save" /\ outcome.pk = NULL) =>
        LET r == outcome.instance
        IN  /\ SameWay(r) # {} =>
                /\ outcome.raised = "IntegrityError"
                /\ r.id = NULL
            /\ SameWay(r) = {} =>
                /\ outcome.raised = "none"
                /\ r \in routes

\* The way back of a persisted route was saved as a new route.
C7_Witness ==
    /\ outcome.op = "Route.save"
    /\ outcome.pk = NULL
    /\ outcome.raised = "none"
    /\ outcome.instance.source # outcome.instance.destination
    /\ WayBack(outcome.instance) # {}

----------------------------------------------------------------------------
\* Rows are deleted, in any order, from a database that holds three
\* airports, three routes, two airplane types, two airplanes, two crew
\* members, three flights, two orders and four tickets.

SeedRoutes ==
    {[id |-> 1, source |-> 1, destination |-> 2],
     [id |-> 2, source |-> 3, destination |-> 1],
     [id |-> 3, source |-> 2, destination |-> 3]}

SeedFlights ==
    {[id |-> 1, departure_time |-> 0, arrival_time |-> 15, route |-> 1,
      airplane |-> 1],
     [id |-> 2, departure_time |-> 0, arrival_time |-> 15, route |-> 2,
      airplane |-> 2],
     [id |-> 3, departure_time |-> 15, arrival_time |-> 15, route |-> 3,
      airplane |-> 1]}

SeedTickets ==
    {[id |-> 1, row |-> 1, seat_in_row |-> 1, order |-> 1, flight |-> 1],
     [id |-> 2, row |-> 1, seat_in_row |-> 1, order |-> 1, flight |-> 2],
     [id |-> 3, row |-> 1, seat_in_row |-> 1, order |-> 2, flight |-> 3],
     [id |-> 4, row |-> 1, seat_in_row |-> 2, order |-> 2, flight |-> 1]}

InitDelete ==
    /\ airports = {[id |-> 1], [id |-> 2], [id |-> 3]}
    /\ routes = SeedRoutes
    /\ airplane_types = {[id |-> 1], [id |-> 2]}
    /\ \E t \in {1, 2} :
        airplanes = {[id |-> 1, rows |-> MaxRows, seats_in_row |-> MaxRows,
                      airplane_type |-> 1],
                     [id |-> 2, rows |-> 1, seats_in_row |-> 1,
                      airplane_type |-> t]}
    /\ crews = {[id |-> 1, first_name |-> "A", last_name |-> "A"],
                [id |-> 2, first_name |-> "A", last_name |-> "B"]}
    /\ flights = SeedFlights
    /\ flight_crew = {<<1, 1>>, <<2, 1>>, <<3, 2>>}
    /\ orders = {[id |-> 1], [id |-> 2]}
    /\ tickets = SeedTickets
    /\ seq = [airport |-> 4, route |-> 4, airplane_type |-> 3, airplane |-> 3,
              crew |-> 3, flight |-> 4, order |-> 3, ticket |-> 5]
    /\ outcome = NoOutcome
    /\ callers = NoCallers

SpecDelete == InitDelete /\ [][Deletes]_vars

\* Every foreign key names a persisted row (or is cleared).
NoDanglingReference ==
    /\ \A r \in routes : {r.source, r.destination} \subseteq Ids(airports)
    /\ \A a \in airplanes : a.airplane_type \in Ids(airplane_types) \cup {NULL}
    /\ \A f \in flights : f.route \in Ids(routes) /\ f.airplane \in Ids(airplanes)
    /\ \A fc \in flight_crew : fc[1] \in Ids(flights) /\ fc[2] \in Ids(crews)
    /\ \A t \in tickets : t.order \in Ids(orders) /\ t.flight \in Ids(flights)

\* What a delete of the rows d leaves: the routes of no deleted airport, the
\* flights of no deleted route or airplane, the tickets of no deleted flight
\* or order, and every other row as it was.
DeleteLeaves(d) ==
    /\ airports' = {x \in airports : x.id \notin d.airports}
    /\ routes' = {r \in routes : /\ r.id \notin d.routes
                                 /\ r.source \notin d.airports
                                 /\ r.destination \notin d.airports}
    /\ Ids(airplanes') = Ids(airplanes) \ d.airplanes
    /\ flights' = {f \in flights : /\ f.id \notin d.flights
                                   /\ f.airplane \notin d.airplanes
                                   /\ f.route \in Ids(routes')}
    /\ orders' = {x \in orders : x.id \notin d.orders}
    /\ crews' = {x \in crews : x.id \notin d.crews}
    /\ airplane_types' = {x \in airplane_types : x.id \notin d.airplane_types}
    /\ flight_crew' = {fc \in flight_crew : /\ fc[1] \in Ids(flights')
                                            /\ fc[2] \in Ids(crews')}
    /\ tickets' = {t \in tickets : /\ t.id \notin d.tickets
                                   /\ t.order \notin d.orders
                                   /\ t.flight \in Ids(flights')}

DeleteOps ==
    {"Airport.delete", "Route.delete", "AirplaneType.delete", "Airplane.delete",
     "Crew.delete", "Flight.delete", "Order.delete", "Ticket.delete"}

\* C8: a delete takes with it the routes of a deleted airport, the flights
\* of a deleted route or airplane and the tickets of a deleted flight or
\* order, transitively, and nothing else; no row is ever left that refers to
\* a deleted row.
C8_DeletesCascade ==
    /\ []NoDanglingReference
    /\ [][outcome'.op \in DeleteOps => DeleteLeaves(outcome'.instance)]_vars

\* Airport 1 was deleted first: its two routes, their flights and the
\* tickets of those flights went with it, and route 3, flight 3 and ticket 3
\* are as they were.
C8_Witness ==
    /\ outcome.op = "Airport.delete"
    /\ Ids(airports) = {2, 3}
    /\ routes = {r \in SeedRoutes : r.id = 3}
    /\ flights = {f \in SeedFlights : f.id = 3}
    /\ tickets = {t \in SeedTickets : t.id = 3}
    /\ Ids(airplanes) = {1, 2}
    /\ Ids(orders) = {1, 2}

\* C9: deleting an airplane type deletes no airplane: the airplanes of that
\* type keep their rows and seats with the type cleared, every other
\* airplane is as it was, and so are the flights and the tickets.
C9_TypeDeleteClearsReference ==
    [][outcome'.op = "AirplaneType.delete" =>
        /\ airplanes' =
            {IF a.airplane_type \in outcome'.instance.airplane_types
             THEN [id |-> a.id, rows |-> a.rows, seats_in_row |-> a.seats_in_row,
                   airplane_type |-> NULL]
             ELSE a : a \in airplanes}
        /\ Cardinality(airplanes') = Cardinality(airplanes)
        /\ flights' = flights
        /\ tickets' = tickets
      ]_vars

\* The type of both airplanes was deleted: both are there without a type,
\* with their flights and tickets.
C9_Witness ==
    /\ outcome.op = "AirplaneType.delete"
    /\ Ids(airplanes) = {1, 2}
    /\ \A a \in airplanes : a.airplane_type = NULL
    /\ airplane_types # {}
    /\ flights = SeedFlights
    /\ tickets = SeedTickets

----------------------------------------------------------------------------
\* Two callers are inside save() of a new row at the same time, on a database
\* that holds none of the keys they ask for.  Each statement sent to the
\* database is one step: the SELECTs of full_clean() are the step Validate
\* and the INSERT is the step Persist; Route and Crew, which do not call
\* full_clean(), only have the INSERT.

Callers == {"c1", "c2"}

Requests ==
    [kind : {"Ticket"},
     instance : [id : {NULL}, row : SeatNumbers, seat_in_row : SeatNumbers,
                 order : {1}, flight : {1, 2}]]
    \cup [kind : {"Route"},
          instance : [id : {NULL}, source : {1, 2}, destination : {1, 2}]]
    \cup [kind : {"Crew"},
          instance : [id : {NULL}, first_name : Names, last_name : Names]]

InitConc ==
    /\ airports = {[id |-> 1], [id |-> 2], [id |-> 3]}
    /\ routes = {[id |-> 1, source |-> 3, destination |-> 1]}
    /\ airplane_types = {}
    /\ crews = {}
    /\ flight_crew = {}
    /\ orders = {[id |-> 1]}
    /\ outcome = NoOutcome
    /\ airplanes = {[id |-> 1, rows |-> MaxRows, seats_in_row |-> MaxRows,
                     airplane_type |-> NULL]}
    /\ flights = {[id |-> 1, departure_time |-> 0, arrival_time |-> 15,
                   route |-> 1, airplane |-> 1],
                  [id |-> 2, departure_time |-> 15, arrival_time |-> 15,
                   route |-> 1, airplane |-> 1]}
    /\ tickets = {}
    /\ seq = [airport |-> 4, route |-> 2, airplane_type |-> 1, airplane |-> 2,
              crew |-> 1, flight |-> 3, order |-> 2, ticket |-> 1]
    /\ callers \in [Callers ->
                     {[pc |-> "start", kind |-> r.kind, instance |-> r.instance,
                       errors |-> {}, raised |-> "none"] : r \in Requests}]

Returned(c, instance, errors, raised) ==
    callers' = [callers EXCEPT ![c] = [@ EXCEPT !.pc = "done",
                                                !.instance = instance,
                                                !.errors = errors,
                                                !.raised = raised]]

\* Ticket.save, first half: self.full_clean()
TicketValidate(c) ==
    LET errors == TicketFullClean(callers[c].instance)
    IN  /\ callers[c].pc = "start"
        /\ callers[c].kind = "Ticket"
        /\ IF SaveProceeds(errors)
           THEN callers' = [callers EXCEPT ![c].pc = "validated"]
           ELSE Returned(c, callers[c].instance, errors, "ValidationError")
        /\ UNCHANGED <<store, seq, outcome>>

\* Ticket.save, second half: super().save(), the INSERT.
TicketPersist(c) ==
    LET instance == [callers[c].instance EXCEPT !.id = seq.ticket]
    IN  /\ callers[c].pc = "validated"
        /\ IF TicketIndexAdmits(callers[c].instance)
           THEN /\ tickets' = tickets \cup {instance}
                /\ seq' = [seq EXCEPT !.ticket = @ + 1]
                /\ Returned(c, instance, {}, "none")
           ELSE /\ UNCHANGED <<tickets, seq>>
                /\ Returned(c, callers[c].instance, {}, "IntegrityError")
        /\ UNCHANGED <<airports, routes, airplane_types, airplanes, crews,
                       flights, flight_crew, orders, outcome>>

RoutePersist(c) ==
    /\ callers[c].pc = "start"
    /\ callers[c].kind = "Route"
    /\ RouteSave(NULL, callers[c].instance.source, callers[c].instance.destination)
    /\ Returned(c, outcome'.instance, outcome'.errors, outcome'.raised)

CrewPersist(c) ==
    /\ callers[c].pc = "start"
    /\ callers[c].kind = "Crew"
    /\ CrewSave(callers[c].instance.first_name, callers[c].instance.last_name)
    /\ Returned(c, outcome'.instance, outcome'.errors, outcome'.raised)

NextConc ==
    \/ \E c \in Callers : TicketValidate(c)
    \/ \E c \in Callers : TicketPersist(c)
    \/ \E c \in Callers : RoutePersist(c)
    \/ \E c \in Callers : CrewPersist(c)

SpecConc == InitConc /\ [][NextConc]_vars

\* The unique key of a caller's instance.
KeyOf(c) ==
    LET x == callers[c].instance
    IN  IF callers[c].kind = "Ticket" THEN <<x.flight, x.row, x.seat_in_row>>
        ELSE IF callers[c].kind = "Route" THEN <<x.source, x.destination>>
        ELSE <<x.first_name, x.last_name>>

\* What a caller sees when its row is refused as a duplicate: the
\* unique_together error of full_clean() or the unique index's error.
SawDuplicate(c) ==
    \/ callers[c].raised = "IntegrityError"
    \/ /\ callers[c].raised = "ValidationError"
       /\ callers[c].errors = {<<NON_FIELD_ERRORS, UniqueTogether>>}

\* The caller's row passes every check of full_clean() but the unique one.
\* (Routes and crew members have no such checks.)
Insertable(c) ==
    callers[c].kind = "Ticket" =>
        /\ callers[c].instance.row \in 1..AirplaneOf(callers[c].instance).rows
        /\ callers[c].instance.seat_in_row \in
            1..AirplaneOf(callers[c].instance).seats_in_row

\* C10: however the steps of two callers that save rows with the same unique
\* key interleave, the table never holds two rows with that key, and once
\* both have returned exactly one save has succeeded and the other was
\* refused as a duplicate (tickets for a seat the airplane does not have are
\* refused by validation, both of them).
C10_OneOfTwoConcurrentSavesWins ==
    /\ \A t \in tickets : SameSeat(t) = {}
    /\ \A r \in routes : SameWay(r) = {}
    /\ \A x, y \in crews :
        (x.first_name = y.first_name /\ x.last_name = y.last_name) => x = y
    /\ \A c, d \in Callers :
        (/\ c # d
         /\ callers[c].pc = "done"
         /\ callers[d].pc = "done"
         /\ callers[c].kind = callers[d].kind
         /\ KeyOf(c) = KeyOf(d))
        => IF Insertable(c)
           THEN /\ Cardinality({x \in {c, d} : callers[x].raised = "none"}) = 1
                /\ \A x \in {c, d} :
                    IF callers[x].raised = "none"
                    THEN callers[x].instance \in
                            (CASE callers[x].kind = "Ticket" -> tickets
                               [] callers[x].kind = "Route" -> routes
                               [] OTHER -> crews)
                    ELSE SawDuplicate(x)
           ELSE /\ callers[c].raised = "ValidationError"
                /\ callers[d].raised = "ValidationError"

\* Both callers passed full_clean() for the same seat before either had
\* inserted; the second INSERT was refused by the unique index.
C10_Witness ==
    /\ callers["c1"].kind = "Ticket"
    /\ callers["c2"].kind = "Ticket"
    /\ KeyOf("c1") = KeyOf("c2")
    /\ callers["c1"].pc = "done"
    /\ callers["c2"].pc = "done"
    /\ callers["c1"].raised = "none"
    /\ callers["c2"].raised = "IntegrityError"
    /\ Cardinality(tickets) = 1

====
